---------------------------- MODULE Spec2Model ----------------------------
(***************************************************************************)
(* Wi-Fi environment telemetry of ndwireless-aircapbuddy: the beacon       *)
(* information-element decoder, the scan and link text parsers, the        *)
(* correlator (src/wifi_scan.py), the command helpers (src/utils.py) and   *)
(* the dual-phase capture (src/speedtest_logger.py).                       *)
(*                                                                         *)
(* Conventions.  A Python call either returns a value or raises: a raised  *)
(* call is the record Raised(exc).  A byte string is a sequence of         *)
(* 0..255; Python's zero-based index i is position i+1.  A str is a        *)
(* sequence of strings: one-character strings where the code inspects the  *)
(* characters (hex digits, MAC addresses, ESSIDs), one chunk where it only *)
(* copies the text; "" is the empty sequence.                              *)
(***************************************************************************)
EXTENDS Integers, Sequences, FiniteSets, TLC

VARIABLES
    ie_hex,      \* read_beacon_ie: the argument ie_hex_string
    ie_res,      \* read_beacon_ie: what the call gave (NotCalled before it)
    uint_in,     \* byte_uint_to_int: the argument byte_uint
    uint_res,    \* byte_uint_to_int: what the call gave (NotCalled before it)
    scan_text,   \* process_scan_results: the argument results (scan dump)
    link_text,   \* process_link: the argument result (link query output)
    wifi_link,   \* the link summary handed to process_scan_results
    cells,       \* process_scan_results: what the call gave
    poll_text,   \* process_link_results: the argument results (poll output)
    samples,     \* process_link_results: what the call gave
    pc,          \* where the caller of the dual-phase capture stands
    proc,        \* the background processes: scan, link (delayed), poll
    results_link,  \* resolve_scan_wifi_async: results_link, once computed
    scan_results,  \* resolve_scan_async: results, once captured
    resolve_res, \* resolve_scan_wifi_async: what the call gave
    iface,       \* scan_async: the argument iface
    link_wait,   \* scan_async: the argument link_wait
    proc_obj,    \* scan_async: what the call gave
    kill,        \* resolve_cmd_async: the argument kill
    timeout_s,   \* resolve_cmd_async: the argument timeout_s
    args,        \* capture_loop: the parsed command line
    chan_list,   \* capture_loop: chan_list
    total_bytes, \* capture_loop: total_bytes
    total_file,  \* capture_loop: the content of total_size.txt
    cycle,       \* capture_loop: cycle
    chan         \* capture_loop: chan, the channel of the cycle under way

decodeVars == <<ie_hex, ie_res>>
signVars == <<uint_in, uint_res>>
scanVars == <<scan_text, link_text, wifi_link, cells>>
pollVars == <<poll_text, samples>>
captureVars == <<pc, proc, results_link, scan_results, resolve_res>>
launchVars == <<iface, link_wait, proc_obj>>
resolveVars == <<kill, timeout_s>>
aircrackVars == <<args, chan_list, total_bytes, total_file, cycle, chan>>
vars == <<decodeVars, signVars, scanVars, pollVars, captureVars,
          launchVars, resolveVars, aircrackVars>>

NotCalled == [status |-> "not_called"]
Raised(exc) == [status |-> "raised", exc |-> exc]
Returned(v) == [status |-> "returned", value |-> v]

Min(a, b) == IF a <= b THEN a ELSE b

(***************************************************************************)
(* Python's integer operators on non-negative integers.                    *)
(***************************************************************************)
RECURSIVE BitAnd(_, _)
BitAnd(a, b) ==
    IF a = 0 \/ b = 0 THEN 0
    ELSE (a % 2) * (b % 2) + 2 * BitAnd(a \div 2, b \div 2)

RECURSIVE BitXor(_, _)
BitXor(a, b) ==
    IF a = 0 THEN b
    ELSE IF b = 0 THEN a
    ELSE (((a % 2) + (b % 2)) % 2) + 2 * BitXor(a \div 2, b \div 2)

Shr(a, n) == a \div (2 ^ n)
Shl_by_one(a, n) == a * 2
Shl(a, n) == a * (2 ^ n)

(***************************************************************************)
(* byte_uint_to_int (wifi_scan.py 23-30): the sign bit tested is 0x8000.   *)
(***************************************************************************)
byte_uint_to_int_sign8(byte_uint) ==
    IF BitAnd(byte_uint, 128) = 128
    THEN -(BitXor(byte_uint, 255) + 1)
    ELSE byte_uint

byte_uint_to_int(byte_uint) ==
    IF BitAnd(byte_uint, 32768) = 32768
    THEN -(BitXor(byte_uint, 65535) + 1)
    ELSE byte_uint

(***************************************************************************)
(* bytes.fromhex, indexing and slicing of a bytes object, int.from_bytes.  *)
(***************************************************************************)
HexDigits ==
    <<"0", "1", "2", "3", "4", "5", "6", "7", "8", "9",
      "A", "B", "C", "D", "E", "F">>
HexVal(c) == (CHOOSE n \in 1..16 : HexDigits[n] = c) - 1

FromHex(hex) ==
    [i \in 1..(Len(hex) \div 2) |->
        16 * HexVal(hex[2 * i - 1]) + HexVal(hex[2 * i])]

ToHex(bytes) ==
    [i \in 1..(2 * Len(bytes)) |->
        IF i % 2 = 1 THEN HexDigits[(bytes[(i + 1) \div 2] \div 16) + 1]
                     ELSE HexDigits[(bytes[i \div 2] % 16) + 1]]

\* byte_data[i] is defined (does not raise IndexError)
Has(b, i) == i < Len(b)
At(b, i) == b[i + 1]
\* byte_data[lo:hi]: clipped to the data, never raises
Slice(b, lo, hi) == SubSeq(b, lo + 1, Min(hi, Len(b)))
\* int.from_bytes(s, byteorder='little') of at most two bytes
RECURSIVE LittleEndian(_)
LittleEndian(s) ==
    IF s = <<>> THEN 0 ELSE Head(s) + 256 * LittleEndian(Tail(s))
\* A longer little-endian integer exceeds TLC's 32-bit integers: it is kept
\* as its base-256 digits, least significant first, without trailing zeros.
RECURSIVE StripZeros(_)
StripZeros(s) ==
    IF s = <<>> THEN <<>>
    ELSE IF s[Len(s)] = 0 THEN StripZeros(SubSeq(s, 1, Len(s) - 1))
    ELSE s
LittleEndianDigits(s) == StripZeros(s)

(***************************************************************************)
(* read_beacon_ie (wifi_scan.py 33-168).  Each case lists the indices the  *)
(* code reads with byte_data[i]; an index past the data raises IndexError, *)
(* which nothing in the function catches, a slice does not.  An odd number *)
(* of hex digits makes bytes.fromhex raise ValueError (line 41).           *)
(***************************************************************************)
Output_id_unset(id, raw, type, elements) ==
    Returned([id |-> 0, raw |-> raw, type |-> type, elements |-> elements])

Output(id, raw, type, elements) ==
    Returned([id |-> id, raw |-> raw, type |-> type, elements |-> elements])

NoElements == <<>>

BssLoad_low_bytes(raw, b) ==
    IF ~Has(b, 4) THEN Raised("IndexError")
    ELSE Output(At(b, 0), raw, "BSS Load",
            ("sta_count" :> LittleEndian(Slice(b, 2, 3)))
         @@ ("ch_utilization" :> [num |-> At(b, 4), den |-> 255])
         @@ ("available_admission_cap" :> LittleEndian(Slice(b, 5, 6))))

\* case 11, lines 45-52; the quotient byte_data[4] / 255 is kept as the pair
\* of its numerator and denominator
BssLoad(raw, b) ==
    IF ~Has(b, 4) THEN Raised("IndexError")
    ELSE Output(At(b, 0), raw, "BSS Load",
            ("sta_count" :> LittleEndian(Slice(b, 2, 4)))
         @@ ("ch_utilization" :> [num |-> At(b, 4), den |-> 255])
         @@ ("available_admission_cap" :> LittleEndian(Slice(b, 5, 7))))

\* case 35, lines 53-57
TpcReport(raw, b) ==
    IF ~(Has(b, 2) /\ Has(b, 3)) THEN Raised("IndexError")
    ELSE Output(At(b, 0), raw, "TPC Report",
            ("tx_power" :> byte_uint_to_int(At(b, 2)))
         @@ ("link_margin" :> byte_uint_to_int(At(b, 3))))

\* case 61, lines 58-93
HtOperation(raw, b) ==
    LET ht_operation_info == Slice(b, 3, 8)
        hti(i) == At(ht_operation_info, i)
    IN  IF ~(Has(b, 2) /\ Has(ht_operation_info, 4)) THEN Raised("IndexError")
        ELSE Output(At(b, 0), raw, "HT Operation",
                ("primary_channel" :> At(b, 2))
             @@ ("secondary_channel_offset" :> BitAnd(hti(0), 3))
             @@ ("sta_channel_width" :> BitAnd(Shr(hti(0), 2), 1))
             @@ ("rifs_mode" :> BitAnd(Shr(hti(0), 3), 1))
             @@ ("ht_protection" :> BitAnd(hti(1), 2))
             @@ ("nongf_ht_sta_present" :> BitAnd(Shr(hti(1), 2), 1))
             @@ ("obss_nonht_sta_present" :> BitAnd(Shr(hti(1), 4), 1))
             @@ ("channel_center_freq_segment_2" :>
                    BitAnd(Shr(hti(1), 5), 3) + Shl(hti(2), 8))
             @@ ("dual_beacon" :> BitAnd(Shr(hti(3), 6), 1))
             @@ ("dual_cts_protection" :> BitAnd(Shr(hti(3), 7), 1))
             @@ ("stbc_beacon" :> BitAnd(hti(4), 1))
             @@ ("lsig_txop_protection" :> BitAnd(Shr(hti(4), 1), 1))
             @@ ("pco_active" :> BitAnd(Shr(hti(4), 2), 1))
             @@ ("pco_phase" :> BitAnd(Shr(hti(4), 3), 1))
             @@ ("basic_mcs_set" :> LittleEndianDigits(Slice(b, 8, 24))))

\* case 192, lines 94-101
VhtOperation(raw, b) ==
    IF ~(Has(b, 2) /\ Has(b, 3) /\ Has(b, 4)) THEN Raised("IndexError")
    ELSE Output(At(b, 0), raw, "VHT Operation",
            ("channel_width" :> At(b, 2))
         @@ ("channel_center_freq_0" :> At(b, 3))
         @@ ("channel_center_freq_1" :> At(b, 4))
         @@ ("basic_mcs_set" :> LittleEndian(Slice(b, 5, 7))))

\* lines 113-115: + binds tighter than &, so the mask is 0x0F + (b & 0x3F)
txop_dur_rts_thresh_grouped(a, b) == BitAnd(Shr(a, 4), 15) + BitAnd(b, 63)
txop_dur_rts_thresh(a, b) == BitAnd(Shr(a, 4), 15 + BitAnd(b, 63))

\* lines 134-141, 143-145: start_index += n inside if (present)
start_index_stuck(start_index, present, n) == start_index
start_index_after(start_index, present, n) ==
    IF present = 1 THEN start_index + n ELSE start_index

\* case 255 / case 36, lines 105-162
HeOperation(raw, b) ==
    LET he_operation_info == Slice(b, 3, 6)
        he(i) == At(he_operation_info, i)
    IN  IF ~(Has(he_operation_info, 2) /\ Has(b, 6)) THEN Raised("IndexError")
        ELSE
        LET vht_info_present == BitAnd(Shr(he(1), 6), 1)
            cohosted_bss == BitAnd(Shr(he(1), 7), 1)
            sixghz_info_present == BitAnd(Shr(he(2), 1), 1)
            bss_color_info == At(b, 6)
            fixed ==
                ("ext_id" :> At(b, 2))
             @@ ("default_pe_duration" :> BitAnd(he(0), 7))
             @@ ("twt_required" :> BitAnd(Shr(he(0), 3), 1))
             @@ ("txop_dur_rts_thresh" :> txop_dur_rts_thresh(he(0), he(1)))
             @@ ("vht_info_present" :> vht_info_present)
             @@ ("cohosted_bss" :> cohosted_bss)
             @@ ("er_su_disable" :> BitAnd(he(2), 1))
             @@ ("6ghz_info_present" :> sixghz_info_present)
             @@ ("bss_color" :> BitAnd(bss_color_info, 63))
             @@ ("partial_bss_color" :> BitAnd(Shr(bss_color_info, 6), 1))
             @@ ("bss_color_disabled" :> BitAnd(Shr(bss_color_info, 7), 1))
             @@ ("basic_mcs_set" :> LittleEndian(Slice(b, 7, 9)))
            start0 == 9
            start1 == start_index_after(start0, vht_info_present, 3)
            start2 == start_index_after(start1, cohosted_bss, 1)
            vht_ok == vht_info_present = 1 => Has(b, start0 + 2)
            cohosted_ok == cohosted_bss = 1 => Has(b, start1)
            sixghz_ok == sixghz_info_present = 1 => Has(b, start2 + 4)
            vht_part ==
                IF vht_info_present = 1
                THEN "vht_info" :>
                        [channel_width |-> At(b, start0),
                         channel_center_freq_0 |-> At(b, start0 + 1),
                         channel_center_freq_1 |-> At(b, start0 + 2)]
                ELSE NoElements
            cohosted_part ==
                IF cohosted_bss = 1
                THEN "max_cohosted_bss_indicator" :> At(b, start1)
                ELSE NoElements
            sixghz_part ==
                IF sixghz_info_present = 1
                THEN LET control == At(b, start2 + 1)
                     IN "6ghz_info" :>
                        [primary_channel |-> At(b, start2),
                         channel_width |-> BitAnd(control, 3),
                         duplicate_beacon |-> BitAnd(Shr(control, 2), 1),
                         regulatory_info |-> BitAnd(Shr(control, 3), 7),
                         channel_center_freq_0 |-> At(b, start2 + 2),
                         channel_center_freq_1 |-> At(b, start2 + 3),
                         min_rate |-> At(b, start2 + 4)]
                ELSE NoElements
        IN  IF ~(vht_ok /\ cohosted_ok /\ sixghz_ok) THEN Raised("IndexError")
            ELSE Output(At(b, 0), raw, "HE Operation",
                        fixed @@ vht_part @@ cohosted_part @@ sixghz_part)

ElementExtension_any_ext(raw, b) ==
    IF ~Has(b, 2) THEN Raised("IndexError")
    ELSE HeOperation(raw, b)

\* case 255, lines 102-164
ElementExtension(raw, b) ==
    IF ~Has(b, 2) THEN Raised("IndexError")
    ELSE IF At(b, 2) = 36 THEN HeOperation(raw, b)
    ELSE Output(At(b, 0), raw, "Unknown", "ext_id" :> At(b, 2))

read_beacon_ie(ie_hex_string) ==
    IF Len(ie_hex_string) % 2 = 1 THEN Raised("ValueError")
    ELSE LET byte_data == FromHex(ie_hex_string)
         IN  IF ~Has(byte_data, 0) THEN Raised("IndexError")
             ELSE CASE At(byte_data, 0) = 11 -> BssLoad(ie_hex_string, byte_data)
                    [] At(byte_data, 0) = 35 -> TpcReport(ie_hex_string, byte_data)
                    [] At(byte_data, 0) = 61 -> HtOperation(ie_hex_string, byte_data)
                    [] At(byte_data, 0) = 192 -> VhtOperation(ie_hex_string, byte_data)
                    [] At(byte_data, 0) = 255 -> ElementExtension(ie_hex_string, byte_data)
                    [] OTHER -> Output(At(byte_data, 0), ie_hex_string,
                                       "Unknown", NoElements)

(***************************************************************************)
(* Scan and link text.  The command output is a sequence of tokens, one    *)
(* per piece of text a pattern of wifi_scan.py 6-20 can match; whitespace  *)
(* between them is what re_sub (line 4) collapses.                         *)
(*   [k |-> "Cell"]                 the record header "Cell NN - "         *)
(*   [k |-> "Address", v |-> mac]   Address: <v>                           *)
(*   [k |-> "Channel", v |-> s]     Channel:<v>                            *)
(*   [k |-> "Frequency", v |-> s]   Frequency:<v>                          *)
(*   [k |-> "Signal", v |-> s]      Signal level=<v>                       *)
(*   [k |-> "ESSID", v |-> name]    ESSID:"<v>"                            *)
(*   [k |-> "Rate", v |-> s]        <v> in a Bit Rates line                *)
(*   [k |-> "IE", v |-> hex]        IE: Unknown: <v>                       *)
(*   [k |-> "Connected", v |-> mac] Connected to <v>                       *)
(*   [k |-> "NotConnected"]         Not connected.                         *)
(*   [k |-> "LinkSignal", v |-> s]  signal: <v>                            *)
(*   [k |-> "TxBitrate", v |-> s]   tx bitrate: <v>                        *)
(*   [k |-> "RxBitrate", v |-> s]   rx bitrate: <v>                        *)
(*   [k |-> "Timestamp", v |-> s]   a line of date -Ins                    *)
(* A MAC address, an ESSID and the hex digits are sequences of characters; *)
(* the other values are one chunk, Str("54 Mb/s").                         *)
(***************************************************************************)
Tok(k, v) == [k |-> k, v |-> v]
Str(chunk) == <<chunk>>
CellTok == Tok("Cell", <<>>)
NotConnectedTok == Tok("NotConnected", <<>>)

UpperHexChars == {HexDigits[n] : n \in 1..16}
LowerHexChars ==
    {"0", "1", "2", "3", "4", "5", "6", "7", "8", "9",
     "a", "b", "c", "d", "e", "f"}

\* str.upper() on the characters a MAC address can hold
UpperChar(c) ==
    CASE c = "a" -> "A" [] c = "b" -> "B" [] c = "c" -> "C"
      [] c = "d" -> "D" [] c = "e" -> "E" [] c = "f" -> "F"
      [] OTHER -> c
Upper(str) == [i \in 1..Len(str) |-> UpperChar(str[i])]

\* the longest prefix of str made of characters of S
RECURSIVE PrefixIn(_, _)
PrefixIn(str, S) ==
    IF str = <<>> \/ Head(str) \notin S THEN <<>>
    ELSE <<Head(str)>> \o PrefixIn(Tail(str), S)

\* re_patterns["bssid"], line 7: Address: *([0-9A-F:]+)
MatchBssid(tok) ==
    IF tok.k = "Address" /\ PrefixIn(tok.v, UpperHexChars \cup {":"}) # <<>>
    THEN <<PrefixIn(tok.v, UpperHexChars \cup {":"})>>
    ELSE <<>>

\* number of places str.split("Cell") cuts in str
RECURSIVE CountCell(_)
CountCell(str) ==
    IF Len(str) < 4 THEN 0
    ELSE IF SubSeq(str, 1, 4) = <<"C", "e", "l", "l">>
         THEN 1 + CountCell(SubSeq(str, 5, Len(str)))
         ELSE CountCell(Tail(str))

\* re_patterns["ssid"], line 11: ESSID: *"([^"]+)" ; a name holding "Cell"
\* is cut by the split before the pattern is tried, and its pieces lack
\* the opening or the closing quote
MatchSsid(tok) ==
    IF tok.k = "ESSID" /\ tok.v # <<>> /\ CountCell(tok.v) = 0
    THEN <<tok.v>> ELSE <<>>

\* lines 8-10, 12, 13: the value of a token of the pattern's kind
MatchKind(kind, tok) == IF tok.k = kind THEN <<tok.v>> ELSE <<>>

Match(key, tok) ==
    CASE key = "bssid" -> MatchBssid(tok)
      [] key = "channel" -> MatchKind("Channel", tok)
      [] key = "freq" -> MatchKind("Frequency", tok)
      [] key = "rssi" -> MatchKind("Signal", tok)
      [] key = "ssid" -> MatchSsid(tok)
      [] key = "rates" -> MatchKind("Rate", tok)
      [] key = "extras" -> MatchKind("IE", tok)
      [] key = "connected" ->
            \* line 178: Connected to *(six pairs of [\da-f], colons between)
            IF /\ tok.k = "Connected"
               /\ Len(tok.v) >= 17
               /\ \A i \in 1..17 :
                    IF i % 3 = 0 THEN tok.v[i] = ":"
                                 ELSE tok.v[i] \in LowerHexChars
            THEN <<SubSeq(tok.v, 1, 17)>> ELSE <<>>
      [] key = "tx_bitrate" -> MatchKind("TxBitrate", tok)
      [] key = "rx_bitrate" -> MatchKind("RxBitrate", tok)
      [] key = "timestamp" -> MatchKind("Timestamp", tok)
      [] key = "link_rssi" -> MatchKind("LinkSignal", tok)

\* pattern.findall(text): the matches in text order
RECURSIVE FindAll(_, _)
FindAll(key, text) ==
    IF text = <<>> THEN <<>>
    ELSE Match(key, Head(text)) \o FindAll(key, Tail(text))

\* process_link, lines 171-193
process_link_no_upper(result) ==
    LET conn == FindAll("connected", result)
        tx == FindAll("tx_bitrate", result)
        rx == FindAll("rx_bitrate", result)
    IN  [bssid |-> IF Len(conn) > 0 THEN conn[1] ELSE <<>>,
         tx_bitrate |-> IF Len(tx) > 0 THEN tx[1] ELSE <<>>,
         rx_bitrate |-> IF Len(rx) > 0 THEN rx[1] ELSE <<>>]

process_link(result) ==
    LET conn == FindAll("connected", result)
        tx == FindAll("tx_bitrate", result)
        rx == FindAll("rx_bitrate", result)
    IN  [bssid |-> IF Len(conn) > 0 THEN Upper(conn[1]) ELSE <<>>,
         tx_bitrate |-> IF Len(tx) > 0 THEN tx[1] ELSE <<>>,
         rx_bitrate |-> IF Len(rx) > 0 THEN rx[1] ELSE <<>>]

\* timestamps[i].replace(",", "."), line 206
ReplaceComma(str) == [i \in 1..Len(str) |-> IF str[i] = "," THEN "." ELSE str[i]]

\* process_link_results, lines 196-212: the loop runs over the rx bitrate
\* matches and indexes the three other lists, an index past a list raises
process_link_results(results) ==
    LET timestamps == FindAll("timestamp", results)
        rssis == FindAll("link_rssi", results)
        tx_bitrates == FindAll("tx_bitrate", results)
        rx_bitrates == FindAll("rx_bitrate", results)
    IN  IF \E i \in 1..Len(rx_bitrates) :
              \/ i > Len(timestamps)
              \/ i > Len(rssis)
              \/ i > Len(tx_bitrates)
        THEN Raised("IndexError")
        ELSE Returned([i \in 1..Len(rx_bitrates) |->
                        [timestamp |-> ReplaceComma(timestamps[i]),
                         rssi |-> rssis[i],
                         tx_bitrate |-> tx_bitrates[i],
                         rx_bitrate |-> rx_bitrates[i]]])

\* line 217: re_sub.sub(" ", results).split("Cell"): the pieces between the
\* occurrences of "Cell", the first and the last included
RECURSIVE SplitCell(_, _)
SplitCell(text, piece) ==
    IF text = <<>> THEN <<piece>>
    ELSE LET tok == Head(text)
             cuts == IF tok.k = "Cell" THEN 1
                     ELSE IF tok.k = "ESSID" THEN CountCell(tok.v)
                     ELSE 0
         IN  IF cuts = 0 THEN SplitCell(Tail(text), Append(piece, tok))
             ELSE <<piece>> \o [i \in 1..(cuts - 1) |-> <<>>]
                            \o SplitCell(Tail(text), <<>>)

\* line 239 in the loop of lines 237-240: the first exception ends the call
RECURSIVE DecodeExtras(_, _)
DecodeExtras(hexes, done) ==
    IF hexes = <<>> THEN Returned(done)
    ELSE LET ie == read_beacon_ie(Head(hexes))
         IN  IF ie.status = "raised" THEN ie
             ELSE DecodeExtras(Tail(hexes), Append(done, ie.value))

\* lines 220-244: the cell of one entry, or the exception decoding raised
First(matches, default) == IF Len(matches) > 0 THEN matches[1] ELSE default

ParseEntry(entry) ==
    LET extras == DecodeExtras(FindAll("extras", entry), <<>>)
    IN  IF extras.status = "raised" THEN extras
        ELSE Returned(
            [bssid |-> First(FindAll("bssid", entry), <<>>),
             channel |-> First(FindAll("channel", entry), <<>>),
             freq |-> First(FindAll("freq", entry), <<>>),
             rssi |-> First(FindAll("rssi", entry), <<>>),
             ssid |-> First(FindAll("ssid", entry), <<>>),
             connected |-> FALSE,
             rates |-> FindAll("rates", entry),
             tx_bitrate |-> <<>>,
             rx_bitrate |-> <<>>,
             extras |-> extras.value])

\* line 246
KeepCell_always(cell) == TRUE

KeepCell(cell) == cell.bssid # <<>>

Correlate_bitrates_everywhere(cell, link) ==
    [cell EXCEPT !.connected = (cell.bssid = link.bssid),
                 !.tx_bitrate = link.tx_bitrate,
                 !.rx_bitrate = link.rx_bitrate]

\* lines 247-250
Correlate(cell, link) ==
    IF cell.bssid = link.bssid
    THEN [cell EXCEPT !.connected = TRUE,
                      !.tx_bitrate = link.tx_bitrate,
                      !.rx_bitrate = link.rx_bitrate]
    ELSE cell

\* lines 219-253: the loop over the entries
RECURSIVE ScanLoop(_, _, _)
ScanLoop(entries, link, out) ==
    IF entries = <<>> THEN Returned(out)
    ELSE LET parsed == ParseEntry(Head(entries))
         IN  IF parsed.status = "raised" THEN parsed
             ELSE ScanLoop(Tail(entries), link,
                           IF KeepCell(parsed.value)
                           THEN Append(out, Correlate(parsed.value, link))
                           ELSE out)

process_scan_results(results, link) ==
    ScanLoop(SplitCell(results, <<>>), link, <<>>)

(***************************************************************************)
(* Inputs of the decoder.                                                  *)
(***************************************************************************)
MaxIELen == 5

SeqsUpTo(S, n) == UNION {[1..k -> S] : k \in 0..n}

Bytes == 0..255
\* the ids the decoder dispatches on, and one it does not know (221)
ElementIds == {11, 35, 61, 192, 255, 221}
PayloadBytes == {0, 36, 128, 255}

\* every element of at most MaxIELen bytes: an id, then PayloadBytes
ShortElements ==
    {<<>>} \cup {<<id>> \o p : id \in ElementIds,
                               p \in SeqsUpTo(PayloadBytes, MaxIELen - 1)}

\* TPC Reports with a two-byte payload: every tx_power byte
TpcElements == {<<35, 2, a, b>> : a \in Bytes, b \in {0, 127, 128, 255}}

Prefixes(s) == {SubSeq(s, 1, n) : n \in 0..Len(s)}

\* an HT Operation element of full length (22 payload bytes) and its prefixes
HtElements ==
    UNION {Prefixes(<<61, 22, 6, i0, i1, 7, 192, 15>>
                    \o [k \in 1..16 |-> IF k = 2 THEN 1 ELSE 255]) :
           i0 \in {5, 255}, i1 \in {2, 255}}

\* HE Operation elements with every combination of the three presence bits,
\* followed by 9 bytes of optional blocks, and their prefixes
HeElements ==
    UNION {Prefixes(<<255, 16, 36, 244, 63 + 64 * v + 128 * c, 1 + 2 * g,
                      191, 252, 255>>
                    \o <<101, 102, 103, 104, 105, 106, 107, 108, 109>>) :
           v \in 0..1, c \in 0..1, g \in 0..1}

\* BSS Load elements with five payload bytes; the first is the element
\* 0B 04 05 00 80 00 00
BssLoadElements ==
    {<<11, 4, 5, 0, 128, 0, 0>>}
    \cup {<<11, 5, s0, s1, u, c0, c1>> :
              s0 \in {0, 5, 255}, s1 \in {0, 1, 255}, u \in {0, 128, 255},
              c0 \in {0, 255}, c1 \in {0, 1, 255}}

\* full HT Operation elements: the two bits of block byte 1 that
\* channel_center_freq_segment_2 takes, with every block byte 2
HtSegmentElements ==
    {<<61, 22, 6, 5, i1, i2, 192, 15>> \o [k \in 1..16 |-> 0] :
        i1 \in {0, 32, 64, 96, 255}, i2 \in Bytes}

\* full HE Operation elements: every upper nibble of the first HE Operation
\* Information byte, with every second byte
HeTxopElements ==
    {<<255, 16, 36, 16 * a + 4, b, 0, 191, 252, 255>>
        \o <<101, 102, 103, 104, 105, 106, 107, 108, 109>> :
        a \in 0..15, b \in Bytes}

\* extension elements that are not HE Operation
OtherExtensions ==
    {<<255, 7, e, 244, 0, 0, 191, 252, 255>> : e \in {0, 35, 37, 255}}

IEBytes ==
    ShortElements \cup TpcElements \cup HtElements \cup HeElements
    \cup BssLoadElements \cup HtSegmentElements \cup HeTxopElements
    \cup OtherExtensions

\* what the scan line carries: the hex digits, and some with one digit lost
IEInputs ==
    {ToHex(b) : b \in IEBytes}
    \cup {SubSeq(ToHex(b), 1, 2 * Len(b) - 1) : b \in ShortElements \ {<<>>}}

(***************************************************************************)
(* The decoder and the sign conversion as called functions.                *)
(***************************************************************************)
IdleDecode == ie_hex = <<>> /\ ie_res = NotCalled
IdleSign == uint_in = 0 /\ uint_res = NotCalled
IdlePoll == poll_text = <<>> /\ samples = NotCalled
NoProcess == [state |-> "none", out |-> <<>>, rc |-> 0, err |-> FALSE,
              signalled |-> FALSE, hangs |-> FALSE, pgid |-> ""]
ProcNames == {"scan", "link", "poll"}
IdleCapture ==
    /\ pc = "idle"
    /\ proc = [p \in ProcNames |-> NoProcess]
    /\ results_link = NotCalled
    /\ scan_results = NotCalled
    /\ resolve_res = NotCalled
\* an optional value: Python's None, or the value v
None == <<>>
Some(v) == <<v>>
IdleLaunch == iface = "" /\ link_wait = 0 /\ proc_obj = NotCalled
IdleResolve == kill = FALSE /\ timeout_s = None
IdleAircrack ==
    /\ args = None
    /\ chan_list = <<>>
    /\ total_bytes = 0
    /\ total_file = None
    /\ cycle = 0
    /\ chan = None
IdleScan ==
    /\ scan_text = <<>>
    /\ link_text = <<>>
    /\ wifi_link = NotCalled
    /\ cells = NotCalled

InitDecode ==
    /\ ie_hex \in IEInputs
    /\ ie_res = NotCalled
    /\ IdleSign
    /\ IdleScan
    /\ IdlePoll
    /\ IdleCapture
    /\ IdleLaunch
    /\ IdleResolve
    /\ IdleAircrack

Decode ==
    /\ ie_res = NotCalled
    /\ ie_res' = read_beacon_ie(ie_hex)
    /\ UNCHANGED <<ie_hex, signVars, scanVars, pollVars, captureVars,
                   launchVars, resolveVars, aircrackVars>>

NextDecode == Decode

SpecDecode == InitDecode /\ [][NextDecode]_vars

UInt16 == 0..65535

InitSign ==
    /\ uint_in \in UInt16
    /\ uint_res = NotCalled
    /\ IdleDecode
    /\ IdleScan
    /\ IdlePoll
    /\ IdleCapture
    /\ IdleLaunch
    /\ IdleResolve
    /\ IdleAircrack

SignConvert ==
    /\ uint_res = NotCalled
    /\ uint_res' = Returned(byte_uint_to_int(uint_in))
    /\ UNCHANGED <<uint_in, decodeVars, scanVars, pollVars, captureVars,
                   launchVars, resolveVars, aircrackVars>>

NextSign == SignConvert

SpecSign == InitSign /\ [][NextSign]_vars

(***************************************************************************)
(* Claims about the decoder.                                               *)
(***************************************************************************)
DecodeCalled == ie_res # NotCalled
ie_bytes == FromHex(ie_hex)
EvenHex == Len(ie_hex) % 2 = 0

\* the payload bytes the element's type needs (spec 4.1), fixed part
PayloadNeeded(b) ==
    CASE b[1] = 11 -> 5
      [] b[1] = 35 -> 2
      [] b[1] = 61 -> 22
      [] b[1] = 192 -> 5
      [] b[1] = 255 -> 7
      [] OTHER -> 0

TruncatedElement(b) ==
    /\ Len(b) >= 1
    /\ b[1] \in {11, 35, 61, 192, 255}
    /\ b[1] = 255 => (Len(b) >= 3 /\ b[3] = 36)
    /\ Len(b) - 2 < PayloadNeeded(b)

ReturnsUnknown(res) ==
    /\ res.status = "returned"
    /\ res.value.type = "Unknown"

\* C1: decoding an element of id 11, 35, 61, 192 or 255/36 whose payload is
\* shorter than its type needs returns a record of type "Unknown" and does
\* not raise.
C1_TruncatedNeverRaises ==
    (DecodeCalled /\ EvenHex /\ TruncatedElement(ie_bytes))
        => ReturnsUnknown(ie_res)

\* C2: decoding a byte sequence of length 0 or 1 returns a record of type
\* "Unknown" and does not raise, whatever the single byte is.
C2_ShortInputUnknown ==
    (DecodeCalled /\ EvenHex /\ Len(ie_bytes) <= 1)
        => ReturnsUnknown(ie_res)

Signed8(x) == IF x >= 128 THEN x - 256 ELSE x

\* C3: a TPC Report's tx_power and link_margin are the signed 8-bit
\* two's-complement readings of payload[0] and payload[1].
C3_TpcSigned8 ==
    (DecodeCalled /\ EvenHex /\ Len(ie_bytes) >= 4 /\ ie_bytes[1] = 35)
        => /\ ie_res.status = "returned"
           /\ ie_res.value.elements["tx_power"] = Signed8(ie_bytes[3])
           /\ ie_res.value.elements["link_margin"] = Signed8(ie_bytes[4])

\* C4: byte_uint_to_int of a 16-bit value v is v below 0x8000 and v - 65536
\* from 0x8000 on.
C4_TwosComplement16 ==
    uint_res # NotCalled =>
        uint_res = Returned(IF uint_in < 32768 THEN uint_in
                                               ELSE uint_in - 65536)

\* C4 witness: 0x8000 was converted, to -32768.
C4_Witness ==
    /\ uint_in = 32768
    /\ uint_res = Returned(-32768)

Decoded(type) ==
    /\ ie_res.status = "returned"
    /\ ie_res.value.type = type
\* bit n of x, and byte_data[i] of the input
Bit(x, n) == (x \div (2 ^ n)) % 2
ie_byte(i) == ie_bytes[i + 1]

\* C13: a BSS Load element (id 11) with at least 5 payload bytes decodes to
\* station count payload[0] + 256*payload[1], channel utilization
\* payload[2]/255 (within 0..1) and available admission capacity
\* payload[3] + 256*payload[4]; 0B 04 05 00 80 00 00 gives 5, 128/255, 0.
C13_BssLoadFields ==
    (DecodeCalled /\ EvenHex /\ Len(ie_bytes) >= 7 /\ ie_byte(0) = 11) =>
        /\ Decoded("BSS Load")
        /\ LET e == ie_res.value.elements
           IN  /\ e["sta_count"] = ie_byte(2) + 256 * ie_byte(3)
               /\ e["ch_utilization"].num = ie_byte(4)
               /\ e["ch_utilization"].den = 255
               /\ e["ch_utilization"].num \in 0..e["ch_utilization"].den
               /\ e["available_admission_cap"] =
                      ie_byte(5) + 256 * ie_byte(6)
               /\ ie_bytes = <<11, 4, 5, 0, 128, 0, 0>> =>
                      /\ e["sta_count"] = 5
                      /\ e["ch_utilization"] = [num |-> 128, den |-> 255]
                      /\ e["available_admission_cap"] = 0

\* C13 witness: 0B 04 05 00 80 00 00 was decoded, and so was a station
\* count with a high byte
C13_Witness ==
    /\ Decoded("BSS Load")
    /\ \/ /\ ie_bytes = <<11, 4, 5, 0, 128, 0, 0>>
          /\ ie_res.value.elements["sta_count"] = 5
       \/ /\ ie_bytes = <<11, 5, 5, 1, 128, 255, 1>>
          /\ ie_res.value.elements["sta_count"] = 261

OneBitFields ==
    {"sta_channel_width", "rifs_mode", "ht_protection",
     "nongf_ht_sta_present", "obss_nonht_sta_present", "dual_beacon",
     "dual_cts_protection", "stbc_beacon", "lsig_txop_protection",
     "pco_active", "pco_phase"}

\* C14: for an HT Operation element (id 61) with its full 22-byte payload,
\* each of the one-bit fields decodes to 0 or 1 and
\* secondary_channel_offset to a value in 0..3.
C14_HtOneBitFields ==
    (DecodeCalled /\ EvenHex /\ Len(ie_bytes) >= 24 /\ ie_byte(0) = 61) =>
        /\ Decoded("HT Operation")
        /\ \A f \in OneBitFields : ie_res.value.elements[f] \in {0, 1}
        /\ ie_res.value.elements["secondary_channel_offset"] \in 0..3

RECURSIVE BitOr(_, _)
BitOr(a, b) ==
    IF a = 0 THEN b
    ELSE IF b = 0 THEN a
    ELSE (IF a % 2 = 1 \/ b % 2 = 1 THEN 1 ELSE 0)
         + 2 * BitOr(a \div 2, b \div 2)

\* C15: for an HT Operation element, channel_center_freq_segment_2 is
\* bits | (byte2 << 8), bits being bits 5-6 of block byte 1 and byte2 block
\* byte 2: the sum the code forms has no carry.
C15_SegmentTwoIsOr ==
    Decoded("HT Operation") =>
        LET bits == (ie_byte(4) \div 32) % 4
            byte2 == ie_byte(5)
        IN  /\ ie_res.value.elements["channel_center_freq_segment_2"] =
                   BitOr(bits, 256 * byte2)
            /\ BitAnd(bits, 256 * byte2) = 0

C15_Witness ==
    /\ Decoded("HT Operation")
    /\ ie_byte(4) = 255
    /\ ie_byte(5) = 255
    /\ ie_res.value.elements["channel_center_freq_segment_2"] = 65283

\* C16: for an HE Operation element (id 255, extension 36) the optional
\* blocks are read in the order VHT information (3 bytes), max co-hosted
\* BSS indicator (1 byte), 6 GHz information (5 bytes), the first at byte 9,
\* the 6 GHz block at 9 + 3*vht_present + cohosted_present; an absent block
\* takes no bytes and gives no field.
C16_HeOptionalBlocks ==
    /\ (DecodeCalled /\ EvenHex /\ Len(ie_bytes) >= 18
           /\ ie_byte(0) = 255 /\ ie_byte(2) = 36) => Decoded("HE Operation")
    /\ Decoded("HE Operation") =>
        LET e == ie_res.value.elements
            v == Bit(ie_byte(4), 6)
            c == Bit(ie_byte(4), 7)
            g == Bit(ie_byte(5), 1)
            six == 9 + 3 * v + c
        IN  /\ ("vht_info" \in DOMAIN e) <=> (v = 1)
            /\ v = 1 =>
                /\ Len(ie_bytes) >= 12
                /\ e["vht_info"] =
                       [channel_width |-> ie_byte(9),
                        channel_center_freq_0 |-> ie_byte(10),
                        channel_center_freq_1 |-> ie_byte(11)]
            /\ ("max_cohosted_bss_indicator" \in DOMAIN e) <=> (c = 1)
            /\ c = 1 =>
                /\ Len(ie_bytes) >= 9 + 3 * v + 1
                /\ e["max_cohosted_bss_indicator"] = ie_byte(9 + 3 * v)
            /\ ("6ghz_info" \in DOMAIN e) <=> (g = 1)
            /\ g = 1 =>
                   /\ Len(ie_bytes) >= six + 5
                   /\ e["6ghz_info"].primary_channel = ie_byte(six)
                   /\ e["6ghz_info"].channel_width = ie_byte(six + 1) % 4
                   /\ e["6ghz_info"].channel_center_freq_0 = ie_byte(six + 2)
                   /\ e["6ghz_info"].channel_center_freq_1 = ie_byte(six + 3)
                   /\ e["6ghz_info"].min_rate = ie_byte(six + 4)

\* C16 witness: all three blocks present, the 6 GHz block read from byte 13
C16_Witness ==
    /\ Decoded("HE Operation")
    /\ Bit(ie_byte(4), 6) = 1
    /\ Bit(ie_byte(4), 7) = 1
    /\ Bit(ie_byte(5), 1) = 1
    /\ ie_res.value.elements["max_cohosted_bss_indicator"] = 104
    /\ ie_res.value.elements["6ghz_info"].primary_channel = 105

\* C17: for an HE Operation element, txop_dur_rts_thresh is
\* (a >> 4) & (0x0F + (b & 0x3F)) for the first two HE Operation Information
\* bytes a and b.
C17_TxopLiteralPrecedence ==
    Decoded("HE Operation") =>
        ie_res.value.elements["txop_dur_rts_thresh"] =
            BitAnd(ie_byte(3) \div 16, 15 + (ie_byte(4) % 64))

\* C17 witness: a = 0xF4, b = 0x3F give 14, where (a >> 4 & 0x0F) plus
\* (b & 0x3F) is 78
C17_Witness ==
    /\ Decoded("HE Operation")
    /\ ie_byte(3) = 244
    /\ ie_byte(4) % 64 = 63
    /\ ie_res.value.elements["txop_dur_rts_thresh"] = 14
    /\ ((ie_byte(3) \div 16) % 16) + (ie_byte(4) % 64) = 78

RecordTypes ==
    {"BSS Load", "TPC Report", "HT Operation", "VHT Operation",
     "HE Operation", "Unknown"}

\* C18: every record read_beacon_ie returns has one of the six types; an id
\* outside {11, 35, 61, 192, 255} gives type "Unknown" and no field; id 255
\* with an extension id other than 36 gives type "Unknown".
C18_TypesAndUnknown ==
    /\ ie_res.status = "returned" => ie_res.value.type \in RecordTypes
    /\ (DecodeCalled /\ EvenHex /\ Len(ie_bytes) >= 1
           /\ ie_byte(0) \notin {11, 35, 61, 192, 255}) =>
          /\ Decoded("Unknown")
          /\ DOMAIN ie_res.value.elements = {}
    /\ (DecodeCalled /\ EvenHex /\ Len(ie_bytes) >= 3
           /\ ie_byte(0) = 255 /\ ie_byte(2) # 36) =>
          Decoded("Unknown")

C18_Witness ==
    /\ Decoded("Unknown")
    /\ Len(ie_bytes) = 9
    /\ ie_byte(0) = 255
    /\ ie_byte(2) = 37

\* C19: the id of every record read_beacon_ie returns is the first byte of
\* the input.
C19_IdIsFirstByte ==
    ie_res.status = "returned" => ie_res.value.id = ie_byte(0)

C19_Witness ==
    /\ ie_res.status = "returned"
    /\ ie_byte(0) = 192
    /\ ie_res.value.id = 192

(***************************************************************************)
(* Inputs of the scan correlation: scan dumps as iwlist prints them (empty *)
(* when the command failed, else records that each start with "Cell") and  *)
(* link summaries, either made by process_link from the output of iw or    *)
(* passed by a caller of process_scan_results.                             *)
(***************************************************************************)
MaxScanTokens == 4
MaxFields == 2

\* a MAC address from its twelve hex digits
MacOf(digits) ==
    [i \in 1..17 |-> IF i % 3 = 0 THEN ":" ELSE digits[i - (i \div 3)]]

MacA == MacOf(<<"A", "A", "B", "B", "C", "C", "D", "D", "E", "E", "F", "F">>)
MacB == MacOf(<<"0", "0", "1", "1", "2", "2", "3", "3", "4", "4", "5", "5">>)
MacALower ==
    MacOf(<<"a", "a", "b", "b", "c", "c", "d", "d", "e", "e", "f", "f">>)

SsidHome == <<"h", "o", "m", "e">>
SsidMyCell == <<"M", "y", "C", "e", "l", "l", "5">>
HexTpc == ToHex(<<35, 2, 255, 127>>)
HexBssLoad == ToHex(<<11, 5, 5, 0, 128, 0, 0>>)
\* a TPC Report cut after its length byte, and one with a digit lost
HexCut == ToHex(<<35, 2>>)
HexOdd == SubSeq(HexTpc, 1, 7)

RecordTokens ==
    {CellTok, Tok("Address", MacA), Tok("Address", MacB),
     Tok("Address", MacALower), Tok("ESSID", SsidHome), Tok("IE", HexTpc),
     Tok("Rate", Str("54 Mb/s"))}

FieldTokens ==
    {Tok("Channel", Str("6")), Tok("Channel", Str("11")),
     Tok("Frequency", Str("2.437 GHz")), Tok("Signal", Str("-50 dBm")),
     Tok("ESSID", SsidHome), Tok("ESSID", SsidMyCell),
     Tok("Rate", Str("54 Mb/s")), Tok("Rate", Str("6 Mb/s")),
     Tok("IE", HexTpc), Tok("IE", HexBssLoad),
     Tok("IE", HexCut), Tok("IE", HexOdd)}

ScanTexts ==
    {<<>>}
    \cup {<<CellTok>> \o t : t \in SeqsUpTo(RecordTokens, MaxScanTokens - 1)}
    \cup {<<CellTok, Tok("Address", MacA)>> \o t :
            t \in SeqsUpTo(FieldTokens, MaxFields)}

LinkTexts ==
    {<<>>,
     <<NotConnectedTok>>,
     <<Tok("Connected", MacALower), Tok("LinkSignal", Str("-50 dBm")),
       Tok("RxBitrate", Str("36.0 MBit/s")), Tok("TxBitrate", Str("54.0 MBit/s"))>>,
     <<Tok("Connected", MacOf(<<"0", "0", "1", "1", "2", "2", "3", "3",
                                "4", "4", "5", "5">>)),
       Tok("RxBitrate", Str("36.0 MBit/s")), Tok("TxBitrate", Str("54.0 MBit/s"))>>,
     <<Tok("Connected", MacA),
       Tok("RxBitrate", Str("36.0 MBit/s")), Tok("TxBitrate", Str("54.0 MBit/s"))>>,
     <<Tok("RxBitrate", Str("36.0 MBit/s")), Tok("TxBitrate", Str("54.0 MBit/s"))>>}

CallerSummaries ==
    {[bssid |-> m, tx_bitrate |-> Str("54 Mb/s"),
     rx_bitrate |-> Str("36 Mb/s")] :
        m \in {MacALower, MacA, <<>>}}

\* link_text when the summary was passed by the caller, not parsed
NoText == <<Tok("none", <<>>)>>

InitScan ==
    /\ scan_text \in ScanTexts
    /\ \/ link_text \in LinkTexts /\ wifi_link = NotCalled
       \/ link_text = NoText /\ wifi_link \in CallerSummaries
    /\ cells = NotCalled
    /\ IdleDecode
    /\ IdleSign
    /\ IdlePoll
    /\ IdleCapture
    /\ IdleLaunch
    /\ IdleResolve
    /\ IdleAircrack

\* process_link(result_conn), the argument of lines 268 and 294
ProcessLink ==
    /\ wifi_link = NotCalled
    /\ wifi_link' = process_link(link_text)
    /\ UNCHANGED <<scan_text, link_text, cells, decodeVars, signVars, pollVars,
                   captureVars,
                   launchVars, resolveVars, aircrackVars>>

\* process_scan_results(results, wifi_link)
ProcessScanResults ==
    /\ wifi_link # NotCalled
    /\ cells = NotCalled
    /\ cells' = process_scan_results(scan_text, wifi_link)
    /\ UNCHANGED <<scan_text, link_text, wifi_link, decodeVars, signVars,
                   pollVars, captureVars,
                   launchVars, resolveVars, aircrackVars>>

NextScan == ProcessLink \/ ProcessScanResults

SpecScan == InitScan /\ [][NextScan]_vars

(***************************************************************************)
(* Claims about the correlation.                                           *)
(***************************************************************************)
CellsReturned == cells # NotCalled /\ cells.status = "returned"
Emitted == 1..Len(cells.value)

C6_AtMostOneConnected ==
    CellsReturned =>
        Cardinality({i \in Emitted : cells.value[i].connected}) <= 1

\* the entries of the scan text in which the Address pattern matches
EntryHasAddress(entry) ==
    \E j \in 1..Len(entry) :
        /\ entry[j].k = "Address"
        /\ entry[j].v # <<>>
        /\ entry[j].v[1] \in UpperHexChars \cup {":"}
ScanEntries == SplitCell(scan_text, <<>>)

\* C7: the returned list holds one cell per entry in which the Address
\* pattern matches and none for the other entries, whatever they contain;
\* every returned cell has a non-empty bssid.
C7_NoAddressNoCell ==
    CellsReturned =>
        /\ \A i \in Emitted : cells.value[i].bssid # <<>>
        /\ Len(cells.value) =
             Cardinality({j \in 1..Len(ScanEntries) :
                            EntryHasAddress(ScanEntries[j])})

\* C7 witness: an entry with an ESSID or an IE line and no matching Address
\* was parsed, another entry was emitted, and the list holds only that one.
C7_Witness ==
    /\ CellsReturned
    /\ Len(cells.value) = 1
    /\ \E j \in 1..Len(ScanEntries) :
          /\ ~EntryHasAddress(ScanEntries[j])
          /\ \E n \in 1..Len(ScanEntries[j]) :
                ScanEntries[j][n].k \in {"ESSID", "IE", "Address"}

LinkParsed == link_text # NoText /\ wifi_link # NotCalled

\* C21: process_link returns a summary with empty bssid, tx_bitrate and
\* rx_bitrate whenever the link text has no "Connected to <mac>" line, also
\* when the text holds "tx bitrate:" or "rx bitrate:" lines.
C21_NoAssociationAllEmpty ==
    (LinkParsed /\ \A n \in 1..Len(link_text) : link_text[n].k # "Connected")
        => wifi_link = [bssid |-> <<>>, tx_bitrate |-> <<>>,
                        rx_bitrate |-> <<>>]

\* the entries that give a cell, in the order of the scan text
KeptEntries == SelectSeq(ScanEntries, EntryHasAddress)

\* C22: correlation changes the matching cell only: an emitted cell whose
\* bssid differs from the link summary's is not connected and has empty
\* bitrates, every other field of every cell is what the parser extracted
\* from its entry, and an empty bssid in the summary marks no cell.
C22_OnlyMatchingCellChanged ==
    CellsReturned =>
        /\ Len(cells.value) = Len(KeptEntries)
        /\ \A i \in Emitted :
              LET cell == cells.value[i]
                  entry == KeptEntries[i]
              IN  /\ cell.bssid # wifi_link.bssid =>
                        /\ ~cell.connected
                        /\ cell.tx_bitrate = <<>>
                        /\ cell.rx_bitrate = <<>>
                  /\ cell.bssid = First(FindAll("bssid", entry), <<>>)
                  /\ cell.channel = First(FindAll("channel", entry), <<>>)
                  /\ cell.freq = First(FindAll("freq", entry), <<>>)
                  /\ cell.rssi = First(FindAll("rssi", entry), <<>>)
                  /\ cell.ssid = First(FindAll("ssid", entry), <<>>)
                  /\ cell.rates = FindAll("rates", entry)
                  /\ [n \in 1..Len(cell.extras) |-> cell.extras[n].raw]
                        = FindAll("extras", entry)
                  /\ wifi_link.bssid = <<>> => ~cell.connected

\* C22 witness: two cells came back, one connected with the link's bitrates,
\* the other one not.
C22_Witness ==
    /\ CellsReturned
    /\ wifi_link.tx_bitrate # <<>>
    /\ \E i, j \in Emitted :
          /\ cells.value[i].connected
          /\ cells.value[i].tx_bitrate = wifi_link.tx_bitrate
          /\ cells.value[j].bssid # wifi_link.bssid
          /\ ~cells.value[j].connected

\* C23: process_scan_results returns a cell list for every scan text and
\* link summary and never raises, an IE line with an odd number of hex
\* digits or with a payload too short for its id included.
C23_ScanResultsTotal ==
    cells # NotCalled => cells.status = "returned"

\* the records of the scan text: what follows each record header "Cell"
RECURSIVE RecordsOf(_, _)
RecordsOf(text, piece) ==
    IF text = <<>> THEN <<piece>>
    ELSE IF Head(text).k = "Cell"
         THEN <<piece>> \o RecordsOf(Tail(text), <<>>)
         ELSE RecordsOf(Tail(text), Append(piece, Head(text)))
ScanRecords == SelectSeq(Tail(RecordsOf(scan_text, <<>>)), EntryHasAddress)

\* the values of a record's lines of one kind, in source order
ValuesOf(kind, record) ==
    LET OfKind(tok) == tok.k = kind
        toks == SelectSeq(record, OfKind)
    IN  [n \in 1..Len(toks) |-> toks[n].v]

\* C26: every scan record that starts with "Cell" and has an Address gives
\* exactly one cell, holding the record's ssid, its rates and its IE
\* payloads in source order with their raw hex, also when a value of the
\* record (its ESSID) contains the text "Cell".
C26_OneCellPerRecord ==
    CellsReturned =>
        /\ Len(cells.value) = Len(ScanRecords)
        /\ \A i \in 1..Len(ScanRecords) :
              LET cell == cells.value[i]
                  record == ScanRecords[i]
              IN  /\ cell.ssid = First(ValuesOf("ESSID", record), <<>>)
                  /\ cell.rates = ValuesOf("Rate", record)
                  /\ [n \in 1..Len(cell.extras) |-> cell.extras[n].raw]
                        = ValuesOf("IE", record)

(***************************************************************************)
(* Inputs of the link series: what the loop of link_async (lines 297-301)  *)
(* writes, one cycle after the other, each the line of date -Ins and then  *)
(* the output of iw dev link, and cut anywhere in its last cycle by the    *)
(* signal that ends the loop.  The values carry the number of their cycle. *)
(***************************************************************************)
MaxCycles == 4

CycleDigit(i) == HexDigits[i + 1]
Stamp(i) == <<"T", CycleDigit(i), ",", "5">>
SignalOf(i) == <<"S", CycleDigit(i)>>
RxOf(i) == <<"R", CycleDigit(i)>>
TxOf(i) == <<"X", CycleDigit(i)>>

\* cycle i with the interface associated / not associated
CycleConnected(i) ==
    <<Tok("Timestamp", Stamp(i)), Tok("Connected", MacALower),
      Tok("LinkSignal", SignalOf(i)), Tok("RxBitrate", RxOf(i)),
      Tok("TxBitrate", TxOf(i))>>
CycleNotConnected(i) == <<Tok("Timestamp", Stamp(i)), NotConnectedTok>>
Cycles(i) == {CycleConnected(i), CycleNotConnected(i)}

\* the outputs of n complete cycles, numbered from i
RECURSIVE CompleteCycles(_, _)
CompleteCycles(i, n) ==
    IF n = 0 THEN {<<>>}
    ELSE {c \o rest : c \in Cycles(i), rest \in CompleteCycles(i + 1, n - 1)}

PollTexts ==
    UNION {Prefixes(t) : t \in CompleteCycles(1, MaxCycles)}

InitPoll ==
    /\ poll_text \in PollTexts
    /\ samples = NotCalled
    /\ IdleDecode
    /\ IdleSign
    /\ IdleScan
    /\ IdleCapture
    /\ IdleLaunch
    /\ IdleResolve
    /\ IdleAircrack

\* process_link_results(results), line 311
ProcessLinkResults ==
    /\ samples = NotCalled
    /\ samples' = process_link_results(poll_text)
    /\ UNCHANGED <<poll_text, decodeVars, signVars, scanVars, captureVars,
                   launchVars, resolveVars, aircrackVars>>

NextPoll == ProcessLinkResults

SpecPoll == InitPoll /\ [][NextPoll]_vars

\* C8: process_link_results returns min(#rssi, #tx bitrate, #rx bitrate)
\* samples and does not raise, also when the last cycle is cut.
C8_SamplesBoundedByShortest ==
    samples # NotCalled =>
        /\ samples.status = "returned"
        /\ Len(samples.value) =
             Min(Len(FindAll("link_rssi", poll_text)),
                 Min(Len(FindAll("tx_bitrate", poll_text)),
                     Len(FindAll("rx_bitrate", poll_text))))

\* the cycle a value of the poll output was written in
CycleOf(value) == value[2]

\* C25: in every sample the timestamp, the rssi and the two bitrates come
\* from the same poll cycle, also when some cycles of the output have a
\* timestamp line and no association data.
C25_SampleFromOneCycle ==
    (samples # NotCalled /\ samples.status = "returned") =>
        \A i \in 1..Len(samples.value) :
            LET sample == samples.value[i]
            IN  /\ CycleOf(sample.timestamp) = CycleOf(sample.rx_bitrate)
                /\ CycleOf(sample.rssi) = CycleOf(sample.rx_bitrate)
                /\ CycleOf(sample.tx_bitrate) = CycleOf(sample.rx_bitrate)

(***************************************************************************)
(* The dual-phase capture: scan_wifi_async and resolve_scan_wifi_async     *)
(* (speedtest_logger.py 279-304) over run_cmd_async and resolve_cmd_async  *)
(* (utils.py 60-98).  The three commands run as background processes, each *)
(* in a session of its own (preexec_fn=os.setsid); the caller's steps are  *)
(* cut where proc.communicate() blocks until the process has exited (no    *)
(* caller passes timeout_s, so it is None and nothing times out).          *)
(***************************************************************************)
Running(out) == [state |-> "running", out |-> out, rc |-> 0, err |-> FALSE,
                 signalled |-> FALSE, hangs |-> FALSE, pgid |-> ""]

\* utils.py 68, preexec_fn=os.setsid: the process of command p leads a
\* session and a process group of its own; without it the child stays in
\* the group of the caller
setsid_omitted(p) == "caller"
setsid(p) == p

\* run_cmd_async, utils.py 64-69, once sanitize has passed
run_cmd_async(p) == [Running(<<>>) EXCEPT !.pgid = setsid(p)]

\* scan_wifi_async, lines 279-287: scan_async starts the scan and the delayed
\* link query (wifi_scan.py 271-281), link_async the poll loop (297-301)
ScanWifiAsync ==
    /\ pc = "idle"
    /\ proc' = [p \in ProcNames |-> run_cmd_async(p)]
    /\ pc' = "running"
    /\ UNCHANGED <<results_link, scan_results, resolve_res,
                   decodeVars, signVars, scanVars, pollVars,
                   launchVars, resolveVars, aircrackVars>>

\* what the scan and the link query can end with: exit code, stdout, stderr
ScanOutputs ==
    {<<>>,
     <<CellTok, Tok("Address", MacA), Tok("IE", HexTpc)>>,
     <<CellTok, Tok("Address", MacA), Tok("IE", <<"2", "3">>)>>}
LinkOutputs ==
    {<<NotConnectedTok>>,
     <<Tok("Connected", MacALower), Tok("LinkSignal", Str("-50 dBm")),
       Tok("RxBitrate", Str("36.0 MBit/s")),
       Tok("TxBitrate", Str("54.0 MBit/s"))>>}
Outcomes(outputs) ==
    {[rc |-> 0, out |-> o, err |-> FALSE] : o \in outputs}
    \cup {[rc |-> 1, out |-> <<>>, err |-> TRUE]}
    \cup {[rc |-> 1, out |-> o, err |-> FALSE] : o \in outputs \ {<<>>}}

Exit(p, o) ==
    [state |-> "exited", out |-> o.out, rc |-> o.rc, err |-> o.err,
     signalled |-> p.signalled, hangs |-> p.hangs, pgid |-> p.pgid]

\* a process that SIGINT reaches dies of it, its output cut
Interrupted == {[rc |-> -2, out |-> <<>>, err |-> FALSE]}

\* sudo iwlist <iface> scanning ends
ScanExit ==
    /\ proc["scan"].state = "running"
    /\ ~proc["scan"].hangs
    /\ \E o \in IF proc["scan"].signalled THEN Interrupted
                 ELSE Outcomes(ScanOutputs) :
          proc' = [proc EXCEPT !["scan"] = Exit(proc["scan"], o)]
    /\ UNCHANGED <<pc, results_link, scan_results, resolve_res,
                   decodeVars, signVars, scanVars, pollVars,
                   launchVars, resolveVars, aircrackVars>>

\* sudo iwlist <iface> scanning blocks for good (a driver that never
\* completes the scan): from here on the process does not exit by itself
ScanHang ==
    /\ proc["scan"].state = "running"
    /\ ~proc["scan"].hangs
    /\ proc' = [proc EXCEPT !["scan"].hangs = TRUE]
    /\ UNCHANGED <<pc, results_link, scan_results, resolve_res,
                   decodeVars, signVars, scanVars, pollVars,
                   launchVars, resolveVars, aircrackVars>>

\* sleep <link_wait>; sudo iw dev <iface> link ends
LinkExit ==
    /\ proc["link"].state = "running"
    /\ \E o \in IF proc["link"].signalled THEN Interrupted
                 ELSE Outcomes(LinkOutputs) :
          proc' = [proc EXCEPT !["link"] = Exit(proc["link"], o)]
    /\ UNCHANGED <<pc, results_link, scan_results, resolve_res,
                   decodeVars, signVars, scanVars, pollVars,
                   launchVars, resolveVars, aircrackVars>>

\* the poll loop writes the next piece of its output
PollEmit ==
    /\ proc["poll"].state = "running"
    /\ ~proc["poll"].signalled
    /\ \E t \in PollTexts :
          /\ Len(t) = Len(proc["poll"].out) + 1
          /\ SubSeq(t, 1, Len(t) - 1) = proc["poll"].out
          /\ proc' = [proc EXCEPT !["poll"].out = t]
    /\ UNCHANGED <<pc, results_link, scan_results, resolve_res,
                   decodeVars, signVars, scanVars, pollVars,
                   launchVars, resolveVars, aircrackVars>>

\* the poll loop's process group dies of SIGINT; it never ends by itself
PollDie ==
    /\ proc["poll"].state = "running"
    /\ proc["poll"].signalled
    /\ \E e \in BOOLEAN :
          proc' = [proc EXCEPT !["poll"] =
                      Exit(proc["poll"],
                           [rc |-> -2, out |-> proc["poll"].out, err |-> e])]
    /\ UNCHANGED <<pc, results_link, scan_results, resolve_res,
                   decodeVars, signVars, scanVars, pollVars,
                   launchVars, resolveVars, aircrackVars>>

ResolvedOutput_any_exit(p, do_kill) == p.out

\* resolve_cmd_async, utils.py 80-89, once communicate() has returned
ResolvedOutput(p, do_kill) ==
    IF p.rc = 0 \/ (do_kill /\ ~p.err) THEN p.out ELSE <<>>

\* resolve_scan_wifi_async line 292 -> resolve_link_async ->
\* resolve_cmd_async(kill=True), utils.py 76-77: os.killpg(..., SIGINT)
\* reaches every process of the poll's group
ResolveKillPoll ==
    /\ pc = "running"
    /\ proc' = [p \in ProcNames |->
                  IF proc[p].pgid = proc["poll"].pgid
                  THEN [proc[p] EXCEPT !.signalled = TRUE]
                  ELSE proc[p]]
    /\ pc' = "poll_wait"
    /\ UNCHANGED <<results_link, scan_results, resolve_res,
                   decodeVars, signVars, scanVars, pollVars,
                   launchVars, resolveVars, aircrackVars>>

\* utils.py 80-89 on the poll, then process_link_results (wifi_scan.py 311);
\* its exception leaves resolve_scan_wifi_async
ResolveLinkAsync ==
    /\ pc = "poll_wait"
    /\ proc["poll"].state = "exited"
    /\ LET r == process_link_results(ResolvedOutput(proc["poll"], TRUE))
       IN  IF r.status = "raised"
           THEN /\ pc' = "raised"
                /\ resolve_res' = r
                /\ UNCHANGED results_link
           ELSE /\ pc' = "scan_wait"
                /\ results_link' = r
                /\ UNCHANGED resolve_res
    /\ UNCHANGED <<proc, scan_results, decodeVars, signVars, scanVars,
                   pollVars,
                   launchVars, resolveVars, aircrackVars>>

ResolveScanOutput_before_kill ==
    /\ pc \in {"running", "scan_wait"}
    /\ proc["scan"].state = "exited"
    /\ scan_results' = Returned(ResolvedOutput(proc["scan"], FALSE))
    /\ pc' = "link_wait"
    /\ UNCHANGED <<proc, results_link, resolve_res,
                   decodeVars, signVars, scanVars, pollVars,
                   launchVars, resolveVars, aircrackVars>>

\* resolve_scan_async, wifi_scan.py 285-288: resolve_cmd_async on the scan.
\* No timeout_s is passed, so communicate(timeout=None) returns when the
\* scan has exited and not before; utils.py 90-95 (TimeoutExpired) cannot
\* happen on this path.
ResolveScanOutput ==
    /\ pc = "scan_wait"
    /\ proc["scan"].state = "exited"
    /\ scan_results' = Returned(ResolvedOutput(proc["scan"], FALSE))
    /\ pc' = "link_wait"
    /\ UNCHANGED <<proc, results_link, resolve_res,
                   decodeVars, signVars, scanVars, pollVars,
                   launchVars, resolveVars, aircrackVars>>

\* wifi_scan.py 289-294: communicate() on the link query, then
\* process_scan_results; speedtest_logger.py 296-304 writes the log
ResolveScanAsync ==
    /\ pc = "link_wait"
    /\ proc["link"].state = "exited"
    /\ LET result_conn == ResolvedOutput(proc["link"], FALSE)
           r == process_scan_results(scan_results.value,
                                     process_link(result_conn))
       IN  IF r.status = "raised"
           THEN /\ pc' = "raised"
                /\ resolve_res' = r
           ELSE /\ pc' = "resolved"
                /\ resolve_res' = Returned([beacons |-> r.value,
                                            links |-> results_link.value])
    /\ UNCHANGED <<proc, results_link, scan_results,
                   decodeVars, signVars, scanVars, pollVars,
                   launchVars, resolveVars, aircrackVars>>

InitCapture ==
    /\ IdleCapture
    /\ IdleDecode
    /\ IdleSign
    /\ IdleScan
    /\ IdlePoll
    /\ IdleLaunch
    /\ IdleResolve
    /\ IdleAircrack

NextCapture ==
    \/ ScanWifiAsync
    \/ ScanExit
    \/ ScanHang
    \/ LinkExit
    \/ PollEmit
    \/ PollDie
    \/ ResolveKillPoll
    \/ ResolveLinkAsync
    \/ ResolveScanOutput
    \/ ResolveScanAsync

SpecCapture == InitCapture /\ [][NextCapture]_vars

(***************************************************************************)
(* Claims about the dual-phase capture.                                    *)
(***************************************************************************)
ResolveEnded == pc \in {"resolved", "raised"}

\* C9: a failing branch does not stop the other one: no exception leaves
\* resolve_scan_wifi_async, and the call ends with the scan's cell list and
\* the link series both computed (empty for a branch that failed).
C9_BranchesIndependent ==
    ResolveEnded =>
        /\ pc = "resolved"
        /\ resolve_res.status = "returned"

\* C10: every resolution signals the poll loop's process group, and once
\* the resolving call has ended, by return or by exception, none of the
\* three background processes is still running.
C10_NoProcessOutlivesResolve ==
    /\ pc \notin {"idle", "running"} => proc["poll"].signalled
    /\ ResolveEnded => \A p \in ProcNames : proc[p].state # "running"

\* C11: the steps of a resolution happen in this order: the poll loop's
\* process group is signalled, then the poll's output is captured, then the
\* scan's output is captured; the scan's output is never captured before
\* the poll has been cancelled and its output taken.
C11_KillThenPollThenScan ==
    /\ results_link # NotCalled =>
           /\ proc["poll"].signalled
           /\ proc["poll"].state = "exited"
    /\ scan_results # NotCalled =>
           /\ proc["poll"].signalled
           /\ results_link # NotCalled

C11_Witness ==
    /\ scan_results.status = "returned"
    /\ results_link.status = "returned"
    /\ proc["poll"].signalled

\* C12: a resolution that has begun always goes on to its end: whatever the
\* scan process does, even if it never exits, the resolving caller does not
\* wait for ever (some step of the capture is possible until the call has
\* ended).
C12_ResolutionTerminates ==
    pc \in {"poll_wait", "scan_wait", "link_wait"} => ENABLED NextCapture

\* C29: cancelling the poll loop reaches the poll only: the signal sent on
\* resolution never reaches the scan or the delayed link query, neither
\* dies of it, and the output of a scan that exited 0 is whole when it is
\* captured afterwards.
C29_SignalReachesPollOnly ==
    pc \in {"running", "poll_wait", "scan_wait", "link_wait", "resolved",
            "raised"} =>
        /\ \A p \in {"scan", "link"} :
              /\ ~proc[p].signalled
              /\ proc[p].rc # -2
        /\ (scan_results # NotCalled /\ proc["scan"].rc = 0) =>
              scan_results.value = proc["scan"].out

\* C29 witness: the poll was signalled and died of it, and the scan's
\* output, captured afterwards, is the whole record the scan wrote
C29_Witness ==
    /\ pc = "link_wait"
    /\ proc["poll"].signalled
    /\ proc["poll"].rc = -2
    /\ proc["scan"].rc = 0
    /\ scan_results.value # <<>>
    /\ scan_results.value = proc["scan"].out

(***************************************************************************)
(* The synchronous scan: scan (wifi_scan.py 256-268) over run_cmd          *)
(* (utils.py 33-57).  subprocess.run waits for the command; the caller's   *)
(* two steps are the two commands.                                         *)
(***************************************************************************)
\* run_cmd with raw_out=False, utils.py 50-57
run_cmd(o) == IF o.rc = 0 \/ ~o.err THEN o.out ELSE <<>>

\* what a command can end with: exit code, stdout, something on stderr
SyncOutcomes(outputs) ==
    {[rc |-> r, out |-> o, err |-> e] :
        r \in {0, 1}, o \in outputs, e \in BOOLEAN}

\* lines 258-261: sudo iwlist <iface> scanning
SyncScanCmd ==
    /\ pc = "sync_scan"
    /\ \E o \in SyncOutcomes(ScanOutputs) :
          /\ proc' = [proc EXCEPT !["scan"] = Exit(proc["scan"], o)]
          /\ scan_results' = Returned(run_cmd(o))
    /\ pc' = "sync_link"
    /\ UNCHANGED <<results_link, resolve_res, decodeVars, signVars, scanVars,
                   pollVars, launchVars, resolveVars, aircrackVars>>

\* lines 264-268: sudo iw dev <iface> link, process_link and
\* process_scan_results
SyncLinkCmd ==
    /\ pc = "sync_link"
    /\ \E o \in SyncOutcomes(LinkOutputs) :
          /\ proc' = [proc EXCEPT !["link"] = Exit(proc["link"], o)]
          /\ wifi_link' = process_link(run_cmd(o))
          /\ cells' = process_scan_results(scan_results.value,
                                           process_link(run_cmd(o)))
    /\ pc' = "sync_done"
    /\ UNCHANGED <<scan_text, link_text, results_link, scan_results,
                   resolve_res, decodeVars, signVars, pollVars,
                   launchVars, resolveVars, aircrackVars>>

InitSync ==
    /\ pc = "sync_scan"
    /\ proc = [p \in ProcNames |-> NoProcess]
    /\ results_link = NotCalled
    /\ scan_results = NotCalled
    /\ resolve_res = NotCalled
    /\ IdleDecode
    /\ IdleSign
    /\ IdleScan
    /\ IdlePoll
    /\ IdleLaunch
    /\ IdleResolve
    /\ IdleAircrack

NextSync == SyncScanCmd \/ SyncLinkCmd

SpecSync == InitSync /\ [][NextSync]_vars

NoLink == [bssid |-> <<>>, tx_bitrate |-> <<>>, rx_bitrate |-> <<>>]

\* C24: a scan or link command that exits non-zero gives an empty result
\* for its branch, an empty cell list or an all-empty link summary, on the
\* synchronous path (scan) and on the asynchronous one
\* (resolve_scan_async), whatever it wrote to stderr.
C24_NonZeroExitEmptyBranch ==
    /\ (pc = "sync_done" /\ cells.status = "returned") =>
          /\ proc["scan"].rc # 0 => cells.value = <<>>
          /\ proc["link"].rc # 0 => wifi_link = NoLink
    /\ pc = "resolved" =>
          /\ proc["scan"].rc # 0 => resolve_res.value.beacons = <<>>
          /\ proc["link"].rc # 0 =>
                \A i \in 1..Len(resolve_res.value.beacons) :
                    ~resolve_res.value.beacons[i].connected

(***************************************************************************)
(* Launching the scan: scan_async (wifi_scan.py 271-281) over              *)
(* run_cmd_async and sanitize (utils.py 7-30, 60-69).  A command line is a *)
(* string; the dict literal of scan_async evaluates its "scan" entry, then *)
(* its "link" entry.                                                       *)
(***************************************************************************)
\* str.replace(old, ""): every occurrence, left to right
RECURSIVE Remove(_, _)
Remove(str, old) ==
    IF Len(str) < Len(old) THEN str
    ELSE IF SubSeq(str, 1, Len(old)) = old
         THEN Remove(SubSeq(str, Len(old) + 1, Len(str)), old)
         ELSE SubSeq(str, 1, 1) \o Remove(SubSeq(str, 2, Len(str)), old)

\* sub in str
Contains(str, sub) ==
    \E i \in 1..(Len(str) - Len(sub) + 1) :
        SubSeq(str, i, i + Len(sub) - 1) = sub

\* sanitize, utils.py 7-30: TRUE when it raises Exception
sanitize(cmd) ==
    LET s1 == Remove(cmd, "sleep 1;")
        s2 == Remove(s1, "while true; do")
        s3 == Remove(s2, "date -Ins;")
        s4 == Remove(s3, "; done")
        s5 == Remove(s4, "git fetch &&")
        sanitized ==
            Remove(s5, "wget -q -O - https://raw.githubusercontent.com/adstriegel/"
                       \o "airbuddy/main/pi-setup.sh | ")
    IN  \E sym \in {" ;", " |", " >", " <", " &",
                     "; ", "| ", "> ", "< ", "& "} :
            Contains(sanitized, sym)

\* the two command lines of scan_async, lines 276 and 279
ScanCmd(ifc) == "sudo iwlist " \o ifc \o " scanning"
LinkCmd(wait, ifc) ==
    "sleep " \o ToString(wait) \o "; sudo iw dev " \o ifc \o " link"

MaxLinkWait == 11
Ifaces == {"wlan0", "wlan1", "mon0", "wlan0; reboot"}

\* line 275: run_cmd_async of the scan command
LaunchScan ==
    /\ pc = "launch_scan"
    /\ IF sanitize(ScanCmd(iface))
       THEN /\ proc_obj' = Raised("Exception")
            /\ pc' = "launch_raised"
            /\ UNCHANGED proc
       ELSE /\ proc' = [proc EXCEPT !["scan"] = run_cmd_async("scan")]
            /\ pc' = "launch_link"
            /\ UNCHANGED proc_obj
    /\ UNCHANGED <<iface, link_wait, results_link, scan_results, resolve_res,
                   decodeVars, signVars, scanVars, pollVars,
                   resolveVars, aircrackVars>>

\* line 278: run_cmd_async of the delayed link query, then the return
LaunchLink ==
    /\ pc = "launch_link"
    /\ IF sanitize(LinkCmd(link_wait, iface))
       THEN /\ proc_obj' = Raised("Exception")
            /\ pc' = "launch_raised"
            /\ UNCHANGED proc
       ELSE /\ proc' = [proc EXCEPT !["link"] = run_cmd_async("link")]
            /\ proc_obj' = Returned({"scan", "link"})
            /\ pc' = "launched"
    /\ UNCHANGED <<iface, link_wait, results_link, scan_results, resolve_res,
                   decodeVars, signVars, scanVars, pollVars,
                   resolveVars, aircrackVars>>

InitLaunch ==
    /\ iface \in Ifaces
    /\ link_wait \in 0..MaxLinkWait
    /\ proc_obj = NotCalled
    /\ pc = "launch_scan"
    /\ proc = [p \in ProcNames |-> NoProcess]
    /\ results_link = NotCalled
    /\ scan_results = NotCalled
    /\ resolve_res = NotCalled
    /\ IdleDecode
    /\ IdleSign
    /\ IdleScan
    /\ IdlePoll
    /\ IdleResolve
    /\ IdleAircrack

NextLaunch == LaunchScan \/ LaunchLink

SpecLaunch == InitLaunch /\ [][NextLaunch]_vars

\* C27: for every link_wait, scan_async launches the scan and the delayed
\* link query and returns both handles; it never launches the scan and
\* then fails before returning the handle of that process.
C27_BothLaunchedOrNone ==
    /\ proc_obj.status = "raised" => proc["scan"].state # "running"
    /\ (proc_obj # NotCalled /\ ~sanitize(ScanCmd(iface))) =>
          /\ proc_obj = Returned({"scan", "link"})
          /\ proc["scan"].state = "running"
          /\ proc["link"].state = "running"

(***************************************************************************)
(* resolve_cmd_async (utils.py 72-98) as a called function, with every     *)
(* value of kill and with and without timeout_s.  The process was started  *)
(* by run_cmd_async and may have exited before the call.  The caller's     *)
(* steps: the optional killpg (lines 75-78), then communicate (line 80),   *)
(* which returns when the process has exited or raises TimeoutExpired      *)
(* while it still runs.                                                    *)
(***************************************************************************)
Cmd == "proc"
TimeoutValues == {None, Some(15)}

\* the process exits by itself
CmdExit ==
    /\ pc \in {"resolve_call", "resolve_wait"}
    /\ proc[Cmd].state = "running"
    /\ \E o \in SyncOutcomes(LinkOutputs) :
          proc' = [proc EXCEPT ![Cmd] = Exit(proc[Cmd], o)]
    /\ UNCHANGED <<pc, results_link, scan_results, resolve_res,
                   decodeVars, signVars, scanVars, pollVars,
                   launchVars, resolveVars, aircrackVars>>

\* the process dies of the SIGINT sent to its group
CmdDie ==
    /\ pc = "resolve_wait"
    /\ proc[Cmd].state = "running"
    /\ proc[Cmd].signalled
    /\ \E out \in LinkOutputs, e \in BOOLEAN :
          proc' = [proc EXCEPT ![Cmd] =
                      Exit(proc[Cmd], [rc |-> -2, out |-> out, err |-> e])]
    /\ UNCHANGED <<pc, results_link, scan_results, resolve_res,
                   decodeVars, signVars, scanVars, pollVars,
                   launchVars, resolveVars, aircrackVars>>

\* lines 75-78: with kill, os.killpg(os.getpgid(proc.pid), SIGINT); for a
\* process that has exited the call either finds the group or raises
\* ProcessLookupError, which line 96 catches: the result is ""
ResolveSignal ==
    /\ pc = "resolve_call"
    /\ \/ /\ ~kill
          /\ pc' = "resolve_wait"
          /\ UNCHANGED <<proc, resolve_res>>
       \/ /\ kill
          /\ proc' = [proc EXCEPT ![Cmd].signalled = TRUE]
          /\ pc' = "resolve_wait"
          /\ UNCHANGED resolve_res
       \/ /\ kill
          /\ proc[Cmd].state = "exited"
          /\ resolve_res' = Returned(<<>>)
          /\ pc' = "resolve_done"
          /\ UNCHANGED proc
    /\ UNCHANGED <<results_link, scan_results,
                   decodeVars, signVars, scanVars, pollVars,
                   launchVars, resolveVars, aircrackVars>>

\* lines 80-89: communicate() returns, the process has exited
ResolveCommunicate ==
    /\ pc = "resolve_wait"
    /\ proc[Cmd].state = "exited"
    /\ resolve_res' = Returned(ResolvedOutput(proc[Cmd], kill))
    /\ pc' = "resolve_done"
    /\ UNCHANGED <<proc, results_link, scan_results,
                   decodeVars, signVars, scanVars, pollVars,
                   launchVars, resolveVars, aircrackVars>>

\* lines 90-95: TimeoutExpired while the process runs; proc.kill(), the
\* second communicate(), and the result is ""
ResolveTimeout ==
    /\ pc = "resolve_wait"
    /\ timeout_s # None
    /\ proc[Cmd].state = "running"
    /\ \E out \in LinkOutputs, e \in BOOLEAN :
          proc' = [proc EXCEPT ![Cmd] =
                      Exit(proc[Cmd], [rc |-> -9, out |-> out, err |-> e])]
    /\ resolve_res' = Returned(<<>>)
    /\ pc' = "resolve_done"
    /\ UNCHANGED <<results_link, scan_results,
                   decodeVars, signVars, scanVars, pollVars,
                   launchVars, resolveVars, aircrackVars>>

InitResolve ==
    /\ kill \in BOOLEAN
    /\ timeout_s \in TimeoutValues
    /\ pc = "resolve_call"
    /\ proc = [p \in {Cmd} |-> run_cmd_async(p)]
    /\ results_link = NotCalled
    /\ scan_results = NotCalled
    /\ resolve_res = NotCalled
    /\ IdleDecode
    /\ IdleSign
    /\ IdleScan
    /\ IdlePoll
    /\ IdleLaunch
    /\ IdleAircrack

NextResolve ==
    \/ CmdExit
    \/ CmdDie
    \/ ResolveSignal
    \/ ResolveCommunicate
    \/ ResolveTimeout

SpecResolve == InitResolve /\ [][NextResolve]_vars

RECURSIVE Lower(_)
Lower(str) ==
    IF str = "" THEN ""
    ELSE LET UpperLetters == "ABCDEFGHIJKLMNOPQRSTUVWXYZ"
             LowerLetters == "abcdefghijklmnopqrstuvwxyz"
             c == SubSeq(str, 1, 1)
             up == {i \in 1..26 : SubSeq(UpperLetters, i, i) = c}
         IN  (IF up = {} THEN c
              ELSE LET i == CHOOSE i \in up : TRUE
                   IN  SubSeq(LowerLetters, i, i))
             \o Lower(SubSeq(str, 2, Len(str)))

\* str.strip() of blanks
RECURSIVE Strip(_)
Strip(str) ==
    IF str = "" THEN ""
    ELSE IF SubSeq(str, 1, 1) = " " THEN Strip(SubSeq(str, 2, Len(str)))
    ELSE IF SubSeq(str, Len(str), Len(str)) = " "
         THEN Strip(SubSeq(str, 1, Len(str) - 1))
    ELSE str

\* str.split(","): the pieces between the commas, empty ones included
RECURSIVE SplitComma(_, _)
SplitComma(str, piece) ==
    IF str = "" THEN <<piece>>
    ELSE IF SubSeq(str, 1, 1) = ","
         THEN <<piece>> \o SplitComma(SubSeq(str, 2, Len(str)), "")
         ELSE SplitComma(SubSeq(str, 2, Len(str)),
                         piece \o SubSeq(str, 1, 1))

\* parse_chan_list, lines 62-70
parse_chan_list(raw) ==
    IF raw = None \/ Lower(raw[1]) \in {"none", ""} THEN <<None>>
    ELSE LET pieces == SplitComma(raw[1], "")
             Kept(c) == Strip(c) # ""
             kept == SelectSeq(pieces, Kept)
         IN  [n \in 1..Len(kept) |-> Some(Strip(kept[n]))]

\* Python's truth value of an optional number: None and 0 are false
Truthy(opt) == opt # None /\ opt[1] # 0

MaxLimit == 3
MaxRuns == 3
\* --channel, --total-limit, and whether --for or --until gave an end
RawChannels ==
    {None, Some(""), Some("None"), Some("44"), Some("36,40,44"),
     Some(" 1, 6 ,,11"), Some(",")}
TotalLimits == {None} \cup {Some(l) : l \in 0..MaxLimit}
\* total_size.txt as earlier runs left it
StoredTotals == {None, Some(0), Some(2)}
\* the size of one archive
TarSizes == {1, 2}

\* lines 135-162: up to the first turn of the loop
EnterLoop ==
    /\ pc = "aircrack_call"
    /\ chan_list' = parse_chan_list(args.channel)
    /\ total_bytes' = IF total_file # None THEN total_file[1] ELSE 0
    /\ cycle' = 0
    /\ pc' = "loop_top"
    /\ UNCHANGED <<args, total_file, chan, proc, results_link, scan_results,
                   resolve_res, decodeVars, signVars, scanVars, pollVars,
                   launchVars, resolveVars>>

\* lines 164-165: the end given by --for or --until has passed
LoopTimeUp ==
    /\ pc = "loop_top"
    /\ args.timed
    /\ pc' = "finished"
    /\ UNCHANGED <<aircrackVars, proc, results_link, scan_results,
                   resolve_res, decodeVars, signVars, scanVars, pollVars,
                   launchVars, resolveVars>>

\* lines 166-172
LoopLimitReached ==
    /\ pc = "loop_top"
    /\ Truthy(args.total_limit)
    /\ total_bytes >= args.total_limit[1]
    /\ pc' = "finished"
    /\ UNCHANGED <<aircrackVars, proc, results_link, scan_results,
                   resolve_res, decodeVars, signVars, scanVars, pollVars,
                   launchVars, resolveVars>>

\* line 175: the channel of the cycle; an empty chan_list makes the
\* modulo raise ZeroDivisionError
StartCycle ==
    /\ pc = "loop_top"
    /\ ~(Truthy(args.total_limit) /\ total_bytes >= args.total_limit[1])
    /\ cycle < MaxRuns
    /\ IF Len(chan_list) = 0
       THEN /\ pc' = "aircrack_raised"
            /\ UNCHANGED chan
       ELSE /\ chan' = chan_list[(cycle % Len(chan_list)) + 1]
            /\ pc' = "capturing"
    /\ UNCHANGED <<args, chan_list, total_bytes, total_file, cycle, proc,
                   results_link, scan_results, resolve_res,
                   decodeVars, signVars, scanVars, pollVars,
                   launchVars, resolveVars>>

\* lines 178-204: capture, archive, counters, sleep
FinishCycle ==
    /\ pc = "capturing"
    /\ \E tar_size \in TarSizes :
          /\ total_bytes' = total_bytes + tar_size
          /\ total_file' = Some(total_bytes + tar_size)
    /\ cycle' = cycle + 1
    /\ pc' = "loop_top"
    /\ UNCHANGED <<args, chan_list, chan, proc, results_link, scan_results,
                   resolve_res, decodeVars, signVars, scanVars, pollVars,
                   launchVars, resolveVars>>

InitAircrack ==
    /\ args \in [channel : RawChannels, total_limit : TotalLimits,
                  timed : BOOLEAN]
    /\ total_file \in StoredTotals
    /\ chan_list = <<>>
    /\ total_bytes = 0
    /\ cycle = 0
    /\ chan = None
    /\ pc = "aircrack_call"
    /\ proc = [p \in ProcNames |-> NoProcess]
    /\ results_link = NotCalled
    /\ scan_results = NotCalled
    /\ resolve_res = NotCalled
    /\ IdleDecode
    /\ IdleSign
    /\ IdleScan
    /\ IdlePoll
    /\ IdleLaunch
    /\ IdleResolve

NextAircrack ==
    \/ EnterLoop
    \/ LoopTimeUp
    \/ LoopLimitReached
    \/ StartCycle
    \/ FinishCycle

SpecAircrack == InitAircrack /\ [][NextAircrack]_vars

\* C30: with a total limit L set, no capture cycle is under way once the
\* archived total (earlier runs included) has reached L; after every
\* completed cycle total_size.txt holds the total kept in memory; cycle k
\* uses chan_list[k mod len(chan_list)].
C30_LimitStopsCapture ==
    /\ (pc = "capturing" /\ args.total_limit # None) =>
          total_bytes < args.total_limit[1]
    /\ (pc = "loop_top" /\ cycle > 0) => total_file = Some(total_bytes)
    /\ pc = "capturing" =>
          chan = chan_list[(cycle % Len(chan_list)) + 1]

=============================================================================
